---- MODULE Spec2Model ----
(***************************************************************************)
(* A model of garminexport's GarminClient (src/garminexport/garminclient.py)*)
(* as a state machine.  The state is the client object (password, session) *)
(* together with the requests.Session objects it has created, and an       *)
(* observation of the last call made on the client: its name, the HTTP     *)
(* requests it sent, the responses the upstream gave, and its outcome      *)
(* (value returned or exception raised).  Every public operation is one    *)
(* action; the upstream's responses are the action's inputs.  The last     *)
(* part models Database (src/garminexport/database.py) and the daily pull  *)
(* process() of src/get_data.py in the same way.                           *)
(*                                                                         *)
(* The code raises bare Exception / ValueError / RuntimeError objects.     *)
(* The model names each raise site by the error of the design's taxonomy   *)
(* it stands for (UsageError: line 32; AuthenticationError: lines 101,     *)
(* 108, 122; RequestError: lines 167, 284, 320; FormatError: line 346;     *)
(* UploadError: lines 354, 357, 360, 374) and names the errors the Python  *)
(* runtime raises by their own names (NameError, AttributeError,           *)
(* TypeError, ValueError).  The declared interpreter is Python 2.7         *)
(* (src/setup.py:21).                                                      *)
(***************************************************************************)
EXTENDS Integers, Sequences, FiniteSets, TLC

VARIABLES
    password,     \* self.password: None or the account password
    session,      \* self.session: None or a requests.Session object
    opened,       \* number of requests.Session objects created and not yet closed
    authed,       \* the upstream accepted the auth ticket of self.session
    everConnected,\* connect() has been called on this client
    block,        \* where a with-statement on the client stands: none, body or left
    op,           \* name of the last operation called on the client
    args,         \* the arguments it was called with
    result,       \* its outcome: a value returned or an exception raised
    sent,         \* the HTTP requests it sent, in order
    recv,         \* the responses it received, recv[i] answering sent[i]
    connection,   \* self.connection of the Database object: None before Database(), open or closed
    dbOpened,     \* number of database connections opened and not yet closed
    daily_statistics, \* the rows of table daily_statistics, in the order inserted
    child_rows,   \* number of rows of the tables sleep, sleep_movement, hr_data, movement_data
    returned      \* for each date, the ids create_or_get_daily_statistic_id has returned for it

clientVars == <<password, session, opened, authed, everConnected, block>>
dbVars == <<connection, dbOpened, daily_statistics, child_rows, returned>>
vars == <<password, session, opened, authed, everConnected, block, op, args, result, sent, recv, connection, dbOpened, daily_statistics, child_rows, returned>>

-----------------------------------------------------------------------------
(* Bounds of the model *)

MaxOpen == 2          \* requests.Session objects open at the same time
MaxBatches == 2       \* batches the activity list upstream scripts

-----------------------------------------------------------------------------
(* Python values *)

None == "None"
Session == "requests.Session"

Return(type, value) == [kind |-> "return", type |-> type, value |-> value]
ReturnNone == Return("NoneType", None)
Raise(error) == [kind |-> "raise", error |-> error, status |-> 0, body |-> None]
RaiseHttp(error, response) ==
    [kind |-> "raise", error |-> error, status |-> response.status, body |-> response.body]

Raised(r) == r.kind = "raise"
RaisedError(r, error) == r.kind = "raise" /\ r.error = error

(* What one call did: outcome, requests sent, responses received. *)
Out(res, snt, rcv) == [res |-> res, sent |-> snt, recv |-> rcv]

Request(method, url, data) == [method |-> method, url |-> url, data |-> data]

SSO_LOGIN_URL == <<"https://sso.garmin.com/sso/login">>
GARMIN_API_URL == "https://connect.garmin.com/modern/proxy"
LEGACY_SESSION_URL == <<"https://connect.garmin.com/legacy/session">>

-----------------------------------------------------------------------------
(* The upstream's answers *)

Statuses == {200, 204, 404, 500}
Response(status, body) == [status |-> status, body |-> body]

JsonDocs == [a \in {"{\"calendarDate\": \"2018-07-22\"}", "{\"calendarDate\": \"2018-07-23\"}"} |->
               IF a = "{\"calendarDate\": \"2018-07-22\"}"
               THEN [calendarDate |-> "2018-07-22"]
               ELSE [calendarDate |-> "2018-07-23"]]
Texts == DOMAIN JsonDocs \cup {"<html>error</html>"}
Responses == {Response(s, b) : s \in Statuses, b \in Texts}

Dates == {"2018-07-22", "2018-07-23"}
ActivityIds == {1, 2}

(* Login pages: what re.search(r'response_url\s*=\s*"(https:[^"]+)"') captures *)
(* in each body (<<>>: no match), as the sequence of its characters.           *)
LoginPages == {"<html>invalid credentials</html>",
               "var response_url = \"https:\\/\\/connect.garmin.com\\/modern?ticket=ST-1\";",
               "var response_url = \"https://connect.garmin.com/modern?ticket=ST-2\";"}
re_search_response_url(text) ==
    CASE text = "var response_url = \"https:\\/\\/connect.garmin.com\\/modern?ticket=ST-1\";" ->
           <<"https:", "\\", "/", "\\", "/", "connect.garmin.com", "\\", "/", "modern?ticket=ST-1">>
      [] text = "var response_url = \"https://connect.garmin.com/modern?ticket=ST-2\";" ->
           <<"https:", "/", "/", "connect.garmin.com", "/", "modern?ticket=ST-2">>
      [] OTHER -> <<>>
LoginResponses == {Response(s, b) : s \in {200, 500}, b \in LoginPages}
PlainResponses == {Response(s, "") : s \in {200, 500}}

-----------------------------------------------------------------------------
(* require_session: the decorator's precondition check *)

require_session(sess, out) ==
    IF sess = None
    THEN Out(Raise("UsageError"), <<>>, <<>>)
    ELSE out

-----------------------------------------------------------------------------
(* connect / _authenticate *)

RECURSIVE str_replace_backslash(_)
str_replace_backslash(chars) ==
    IF chars = <<>> THEN <<>>
    ELSE IF Head(chars) = "\\" THEN str_replace_backslash(Tail(chars))
    ELSE <<Head(chars)>> \o str_replace_backslash(Tail(chars))

(* _extract_auth_ticket_url: <<>> stands for the RuntimeError of line 122 *)
_extract_auth_ticket_url(text) == str_replace_backslash(re_search_response_url(text))

_authenticate_no_stop(sess, login, ticket, warm) ==
    LET post == Request("POST", SSO_LOGIN_URL, "form")
        url == _extract_auth_ticket_url(login.body)
        claim == Request("GET", url, None)
        warmup == Request("GET", LEGACY_SESSION_URL, None)
    IN  IF login.status # 200 THEN Out(Raise("AuthenticationError"), <<post>>, <<login>>)
        ELSE IF url = <<>> THEN Out(Raise("AuthenticationError"), <<post>>, <<login>>)
        ELSE IF ticket.status # 200
             THEN Out(RaiseHttp("AuthenticationError", ticket),
                      <<post, claim, warmup>>, <<login, ticket, warm>>)
        ELSE Out(ReturnNone, <<post, claim, warmup>>, <<login, ticket, warm>>)

_authenticate_check_warm(sess, login, ticket, warm) ==
    LET post == Request("POST", SSO_LOGIN_URL, "form")
        url == _extract_auth_ticket_url(login.body)
        claim == Request("GET", url, None)
        warmup == Request("GET", LEGACY_SESSION_URL, None)
    IN  IF login.status # 200 THEN Out(Raise("AuthenticationError"), <<post>>, <<login>>)
        ELSE IF url = <<>> THEN Out(Raise("AuthenticationError"), <<post>>, <<login>>)
        ELSE IF ticket.status # 200
             THEN Out(RaiseHttp("AuthenticationError", ticket), <<post, claim>>, <<login, ticket>>)
        ELSE IF warm.status # 200
             THEN Out(RaiseHttp("AuthenticationError", warm),
                      <<post, claim, warmup>>, <<login, ticket, warm>>)
        ELSE Out(ReturnNone, <<post, claim, warmup>>, <<login, ticket, warm>>)

_authenticate(sess, login, ticket, warm) ==
    LET post == Request("POST", SSO_LOGIN_URL, "form")
        url == _extract_auth_ticket_url(login.body)
        claim == Request("GET", url, None)
        warmup == Request("GET", LEGACY_SESSION_URL, None)
    IN  IF login.status # 200 THEN Out(Raise("AuthenticationError"), <<post>>, <<login>>)
        ELSE IF url = <<>> THEN Out(Raise("AuthenticationError"), <<post>>, <<login>>)
        ELSE IF ticket.status # 200
             THEN Out(RaiseHttp("AuthenticationError", ticket), <<post, claim>>, <<login, ticket>>)
        ELSE Out(ReturnNone, <<post, claim, warmup>>, <<login, ticket, warm>>)

(* The login steps completed: the ticket GET was sent and answered 200. *)
TicketClaimed(out) == Len(out.recv) >= 2 /\ out.recv[2].status = 200

connect(sess, pw, login, ticket, warm) ==
    IF pw # None THEN _authenticate(sess, login, ticket, warm)
    ELSE Out(ReturnNone, <<>>, <<>>)

Connect ==
    /\ opened < MaxOpen
    /\ \E login \in LoginResponses, ticket \in PlainResponses, warm \in PlainResponses :
         LET out == connect(Session, password, login, ticket, warm)
         IN  /\ session' = Session
             /\ opened' = opened + 1
             /\ authed' = TicketClaimed(out)
             /\ op' = "connect"
             /\ args' = <<>>
             /\ result' = out.res
             /\ sent' = out.sent
             /\ recv' = out.recv
    /\ everConnected' = TRUE
    /\ UNCHANGED <<password, block>>
    /\ UNCHANGED dbVars

Disconnect ==
    /\ IF session # None
       THEN /\ opened' = opened - 1
            /\ authed' = FALSE
            /\ session' = None
       ELSE UNCHANGED <<opened, authed, session>>
    /\ op' = "disconnect"
    /\ args' = <<>>
    /\ result' = ReturnNone
    /\ sent' = <<>>
    /\ recv' = <<>>
    /\ UNCHANGED <<password, everConnected, block>>
    /\ UNCHANGED dbVars

-----------------------------------------------------------------------------
(* get_data / get_json_data and the fetchers built on them *)

get_data_all_absent(sess, get_url, response) ==
    require_session(sess,
        LET get == Request("GET", get_url, None)
        IN  IF response.status # 200
            THEN Out(ReturnNone, <<get>>, <<response>>)
            ELSE Out(Return("str", response.body), <<get>>, <<response>>))

get_data_retry(sess, get_url, response) ==
    require_session(sess,
        LET get == Request("GET", get_url, None)
        IN  IF response.status \in {404, 204}
            THEN Out(ReturnNone, <<get>>, <<response>>)
            ELSE IF response.status # 200
            THEN Out(RaiseHttp("RequestError", response), <<get, get>>, <<response, response>>)
            ELSE Out(Return("str", response.body), <<get>>, <<response>>))

get_data(sess, get_url, response) ==
    require_session(sess,
        LET get == Request("GET", get_url, None)
        IN  IF response.status \in {404, 204}
            THEN Out(ReturnNone, <<get>>, <<response>>)
            ELSE IF response.status # 200
            THEN Out(RaiseHttp("RequestError", response), <<get>>, <<response>>)
            ELSE Out(Return("str", response.body), <<get>>, <<response>>))

json_loads_partial(r) ==
    IF r.type = "NoneType" THEN Return("dict", [calendarDate |-> None])
    ELSE IF r.value \in DOMAIN JsonDocs THEN Return("dict", JsonDocs[r.value])
    ELSE Raise("ValueError")

(* json.loads: TypeError on None, ValueError on text that is not JSON *)
json_loads(r) ==
    IF r.type = "NoneType" THEN Raise("TypeError")
    ELSE IF r.value \in DOMAIN JsonDocs THEN Return("dict", JsonDocs[r.value])
    ELSE Raise("ValueError")

get_json_data(sess, get_url, response) ==
    LET data == get_data(sess, get_url, response)
    IN  IF Raised(data.res) THEN data
        ELSE Out(json_loads(data.res), data.sent, data.recv)

DailySleepUrl(d) == <<GARMIN_API_URL, "/wellness-service/wellness/dailySleepData/", d>>
DailyHrUrl(d) == <<GARMIN_API_URL, "/wellness-service/wellness/dailyHeartRate/", d>>
DailyMovementUrl(d) == <<GARMIN_API_URL, "/wellness-service/wellness/dailyMovement/", d>>
UserSummaryUrl(d) == <<GARMIN_API_URL, "/usersummary-service/usersummary/daily/", d>>
GpxUrl(id) == <<GARMIN_API_URL, "download-service/export/gpx/activity/", id>>
TcxUrl(id) == <<GARMIN_API_URL, "download-service/export/tcx/activity/", id>>
OriginalUrl(id) == <<GARMIN_API_URL, "download-service/files/activity/", id>>
ActivityListUrl == <<GARMIN_API_URL, "activitylist-service/activities/search/activities">>

get_daily_sleep_data(sess, request_date, response) ==
    require_session(sess, get_json_data(sess, DailySleepUrl(request_date), response))

get_daily_hr_data(sess, request_date, response) ==
    require_session(sess, get_json_data(sess, DailyHrUrl(request_date), response))

get_daily_movement(sess, request_date, response) ==
    require_session(sess, get_json_data(sess, DailyMovementUrl(request_date), response))

get_user_summary(sess, request_date, response) ==
    require_session(sess, get_json_data(sess, UserSummaryUrl(request_date), response))

(* get_activity_summary calls the global name get_json_data, *)
(* get_activity_details the global name get_json_url: neither exists. *)
get_activity_summary(sess, activity_id) ==
    require_session(sess, Out(Raise("NameError"), <<>>, <<>>))

get_activity_details(sess, activity_id) ==
    require_session(sess, Out(Raise("NameError"), <<>>, <<>>))

get_activity_gpx(sess, activity_id, response) ==
    require_session(sess, get_data(sess, GpxUrl(activity_id), response))

get_activity_tcx(sess, activity_id, response) ==
    require_session(sess, get_data(sess, TcxUrl(activity_id), response))

(* get_original_activity is not decorated: without a session, self.session.get *)
(* is an attribute access on None.  On 200, StringIO is an undefined name      *)
(* (the module imports BytesIO only).                                          *)
get_original_activity(sess, activity_id, response) ==
    LET get == Request("GET", OriginalUrl(activity_id), None)
    IN  IF sess = None THEN Out(Raise("AttributeError"), <<>>, <<>>)
        ELSE IF response.status = 404
        THEN Out(Return("tuple", <<None, None>>), <<get>>, <<response>>)
        ELSE IF response.status # 200
        THEN Out(RaiseHttp("RequestError", response), <<get>>, <<response>>)
        ELSE Out(Raise("NameError"), <<get>>, <<response>>)

get_activity_fit(sess, activity_id, response) ==
    LET orig == get_original_activity(sess, activity_id, response)
    IN  IF Raised(orig.res) THEN orig
        ELSE IF orig.res.value[1] = "fit"
        THEN Out(Return("str", orig.res.value[2]), orig.sent, orig.recv)
        ELSE Out(ReturnNone, orig.sent, orig.recv)

Call_dropping_session(name, arguments, out) ==
    /\ op' = name
    /\ args' = arguments
    /\ result' = out.res
    /\ sent' = out.sent
    /\ recv' = out.recv
    /\ session' = IF Raised(out.res) THEN None ELSE session
    /\ UNCHANGED <<password, opened, authed, everConnected, block>>
    /\ UNCHANGED dbVars

(* A call that leaves the client object as it is. *)
Call(name, arguments, out) ==
    /\ op' = name
    /\ args' = arguments
    /\ result' = out.res
    /\ sent' = out.sent
    /\ recv' = out.recv
    /\ UNCHANGED <<password, session, opened, authed, everConnected, block>>
    /\ UNCHANGED dbVars

GetDailySleepData ==
    \E d \in Dates, r \in Responses :
        Call("get_daily_sleep_data", [request_date |-> d], get_daily_sleep_data(session, d, r))

GetDailyHrData ==
    \E d \in Dates, r \in Responses :
        Call("get_daily_hr_data", [request_date |-> d], get_daily_hr_data(session, d, r))

GetDailyMovement ==
    \E d \in Dates, r \in Responses :
        Call("get_daily_movement", [request_date |-> d], get_daily_movement(session, d, r))

GetUserSummary ==
    \E d \in Dates, r \in Responses :
        Call("get_user_summary", [request_date |-> d], get_user_summary(session, d, r))

GetActivitySummary ==
    \E id \in ActivityIds : Call("get_activity_summary", [activity_id |-> id], get_activity_summary(session, id))

GetActivityDetails ==
    \E id \in ActivityIds : Call("get_activity_details", [activity_id |-> id], get_activity_details(session, id))

GetActivityGpx ==
    \E id \in ActivityIds, r \in Responses :
        Call("get_activity_gpx", [activity_id |-> id], get_activity_gpx(session, id, r))

GetActivityTcx ==
    \E id \in ActivityIds, r \in Responses :
        Call("get_activity_tcx", [activity_id |-> id], get_activity_tcx(session, id, r))

GetOriginalActivity ==
    \E id \in ActivityIds, r \in Responses :
        Call("get_original_activity", [activity_id |-> id], get_original_activity(session, id, r))

GetActivityFit ==
    \E id \in ActivityIds, r \in Responses :
        Call("get_activity_fit", [activity_id |-> id], get_activity_fit(session, id, r))

-----------------------------------------------------------------------------
(* list_activities / _fetch_activity_ids_and_ts *)

batch_size == 100

(* One activity of the activity list, as the upstream's JSON gives it. *)
Activity(id) == [activityId |-> id, startTimeGMT |-> "2018-07-22 10:00:00"]

(* dateutil.parser.parse(...).replace(tzinfo=tzutc()) *)
parse_utc(text) == [naive |-> text, tzinfo |-> "UTC"]

entry(activity) == <<activity.activityId, parse_utc(activity.startTimeGMT)>>

(* The batches the upstream scripts: empty, one activity, two activities *)
(* with the most recent (higher id) first.                               *)
Batches == {<<>>, <<Activity(1)>>, <<Activity(2), Activity(1)>>}
ListResponses == {Response(s, b) : s \in Statuses, b \in Batches}

(* The paginated endpoint of the design's test: batches of 100, 100 and 37 *)
(* activities with the ids 1..237, then an empty batch.                    *)
PaginatedBatch(first, last) == [i \in 1..(last - first + 1) |-> Activity(first + i - 1)]
PaginatedEndpoint ==
    <<Response(200, PaginatedBatch(1, 100)), Response(200, PaginatedBatch(101, 200)),
      Response(200, PaginatedBatch(201, 237)), Response(200, <<>>)>>

Scripts == UNION {[1..n -> ListResponses] : n \in 0..MaxBatches} \cup {PaginatedEndpoint}

(* The upstream's answer to the n-th batch request: past the script, the index *)
(* is out of bounds and the batch is empty.                                    *)
Upstream(script, n) == IF n <= Len(script) THEN script[n] ELSE Response(200, <<>>)

_fetch_activity_ids_and_ts_from_0(sess, start_index, max_limit, response) ==
    require_session(sess,
        LET get == Request("GET", ActivityListUrl, [start |-> 0, limit |-> max_limit])
            activities == response.body
        IN  IF response.status # 200
            THEN Out(RaiseHttp("RequestError", response), <<get>>, <<response>>)
            ELSE IF activities = <<>>
            THEN Out(Return("list", <<>>), <<get>>, <<response>>)
            ELSE Out(Return("list", [i \in 1..Len(activities) |-> entry(activities[i])]),
                     <<get>>, <<response>>))

_fetch_activity_ids_and_ts(sess, start_index, max_limit, response) ==
    require_session(sess,
        LET get == Request("GET", ActivityListUrl,
                           [start |-> start_index, limit |-> max_limit])
            activities == response.body
        IN  IF response.status # 200
            THEN Out(RaiseHttp("RequestError", response), <<get>>, <<response>>)
            ELSE IF activities = <<>>
            THEN Out(Return("list", <<>>), <<get>>, <<response>>)
            ELSE Out(Return("list", [i \in 1..Len(activities) |-> entry(activities[i])]),
                     <<get>>, <<response>>))

RECURSIVE list_activities_loop(_, _, _, _, _, _)
list_activities_loop(sess, script, n, ids, snt, rcv) ==
    LET next_batch == _fetch_activity_ids_and_ts(sess, n * batch_size, batch_size,
                                                 Upstream(script, n + 1))
    IN  IF Raised(next_batch.res)
        THEN Out(next_batch.res, snt \o next_batch.sent, rcv \o next_batch.recv)
        ELSE IF next_batch.res.value = <<>>
        THEN Out(Return("list", ids), snt \o next_batch.sent, rcv \o next_batch.recv)
        ELSE list_activities_loop(sess, script, n + 1, ids \o next_batch.res.value,
                                  snt \o next_batch.sent, rcv \o next_batch.recv)

RECURSIVE list_activities_loop_prepend(_, _, _, _, _, _)
list_activities_loop_prepend(sess, script, n, ids, snt, rcv) ==
    LET next_batch == _fetch_activity_ids_and_ts(sess, n * batch_size, batch_size,
                                                 Upstream(script, n + 1))
    IN  IF Raised(next_batch.res)
        THEN Out(next_batch.res, snt \o next_batch.sent, rcv \o next_batch.recv)
        ELSE IF next_batch.res.value = <<>>
        THEN Out(Return("list", ids), snt \o next_batch.sent, rcv \o next_batch.recv)
        ELSE list_activities_loop_prepend(sess, script, n + 1, next_batch.res.value \o ids,
                                  snt \o next_batch.sent, rcv \o next_batch.recv)

list_activities_prepend(sess, script) ==
    require_session(sess, list_activities_loop_prepend(sess, script, 0, <<>>, <<>>, <<>>))

list_activities(sess, script) ==
    require_session(sess, list_activities_loop(sess, script, 0, <<>>, <<>>, <<>>))

ListActivities ==
    \E script \in Scripts : Call("list_activities", <<>>, list_activities(session, script))

-----------------------------------------------------------------------------
(* upload_activity *)

(* File names as os.path.splitext splits them: root and extension. *)
FileNames == {[root |-> "ride", ext |-> ".gpx"], [root |-> "RIDE", ext |-> ".TCX"],
              [root |-> "data", ext |-> ".csv"]}
Formats == {None, "tcx"}

str_lower(text) == IF text = ".TCX" THEN ".tcx" ELSE text

(* text[1:] *)
str_from_1(text) ==
    CASE text = ".gpx" -> "gpx"
      [] text = ".tcx" -> "tcx"
      [] text = ".fit" -> "fit"
      [] text = ".csv" -> "csv"
      [] OTHER -> ""

(* The format upload_activity uses: the one given, else the one guessed from *)
(* the extension; None stands for the failure of line 346.                   *)
guess_format_any(format, ext) ==
    IF format = None THEN str_from_1(str_lower(ext)) ELSE format

guess_format(format, ext) ==
    IF format = None
    THEN IF str_lower(ext) \in {".gpx", ".tcx", ".fit"}
         THEN str_from_1(str_lower(ext))
         ELSE None
    ELSE format

(* Bodies of the upload endpoint's answer, and what json.loads makes of *)
(* those that are JSON; a body outside the table is not JSON.           *)
ImportResult(failures, successes) ==
    [keys |-> {"detailedImportResult"}, failures |-> failures, successes |-> successes]
UploadDocs ==
    [a \in {"{}",
            "{\"detailedImportResult\": {\"failures\": [], \"successes\": []}}",
            "{\"detailedImportResult\": {\"failures\": [], \"successes\": [{\"internalId\": 7}]}}",
            "{\"detailedImportResult\": {\"failures\": [], \"successes\": [{\"internalId\": 7}, {\"internalId\": 8}]}}",
            "{\"detailedImportResult\": {\"failures\": [\"duplicate\"], \"successes\": [{\"internalId\": 7}]}}"} |->
        CASE a = "{}" -> [keys |-> {}, failures |-> <<>>, successes |-> <<>>]
          [] a = "{\"detailedImportResult\": {\"failures\": [], \"successes\": []}}" ->
                ImportResult(<<>>, <<>>)
          [] a = "{\"detailedImportResult\": {\"failures\": [], \"successes\": [{\"internalId\": 7}]}}" ->
                ImportResult(<<>>, <<[internalId |-> 7]>>)
          [] a = "{\"detailedImportResult\": {\"failures\": [], \"successes\": [{\"internalId\": 7}, {\"internalId\": 8}]}}" ->
                ImportResult(<<>>, <<[internalId |-> 7], [internalId |-> 8]>>)
          [] a = "{\"detailedImportResult\": {\"failures\": [\"duplicate\"], \"successes\": [{\"internalId\": 7}]}}" ->
                ImportResult(<<"duplicate">>, <<[internalId |-> 7]>>)]
UploadBodies == DOMAIN UploadDocs \cup {"<html>error</html>"}
UploadResponses == {Response(200, b) : b \in UploadBodies}
PutResponses == {Response(s, "") : s \in {204, 500}}

Names == {None, "Morning run"}
Descriptions == {None, "easy pace"}
ActivityTypes == {None, "running"}
Privates == {None, "True", "False"}

UploadUrl(format) == <<GARMIN_API_URL, "upload-service/upload/.", format>>
ActivityUrl(activity_id) ==
    <<"https://connect.garmin.com/proxy/activity-service/activity/", activity_id>>

metadata_without_type(name, description, activity_type, private) ==
    LET keys == (IF name # None THEN {"activityName"} ELSE {}) \cup
                (IF description # None THEN {"description"} ELSE {}) \cup
                (IF private = "True" THEN {"privacy"} ELSE {})
    IN  [k \in keys |->
            CASE k = "activityName" -> name
              [] k = "description" -> name
              [] k = "privacy" -> [typeKey |-> "private"]]

(* The dict of the metadata update: line 366 fills description from name. *)
metadata(name, description, activity_type, private) ==
    LET keys == (IF name # None THEN {"activityName"} ELSE {}) \cup
                (IF description # None THEN {"description"} ELSE {}) \cup
                (IF activity_type # None THEN {"activityTypeDTO"} ELSE {}) \cup
                (IF private = "True" THEN {"privacy"} ELSE {})
    IN  [k \in keys |->
            CASE k = "activityName" -> name
              [] k = "description" -> name
              [] k = "activityTypeDTO" -> [typeKey |-> activity_type]
              [] k = "privacy" -> [typeKey |-> "private"]]

(* data['activityId'] = activity_id *)
with_activity_id(data, activity_id) ==
    [k \in DOMAIN data \cup {"activityId"} |->
        IF k = "activityId" THEN activity_id ELSE data[k]]

(* len(j["failures"]) or len(j["successes"]) < 1 *)
import_failed_no_success(j) == Len(j.successes) < 1

import_failed(j) == Len(j.failures) # 0 \/ Len(j.successes) < 1

(* len(j["successes"]) > 1 *)
multiple_successes_never(j) == FALSE

multiple_successes(j) == Len(j.successes) > 1

(* json.JSONDecodeException does not exist: evaluating the except clause of *)
(* line 353 raises AttributeError in place of whatever the try block raised. *)
upload_activity(sess, file, format, name, description, activity_type, private, response, put_response) ==
    require_session(sess,
        LET fmt == guess_format(format, file.ext)
            post == Request("POST", UploadUrl(fmt), "files")
            j == UploadDocs[response.body]
            activity_id == j.successes[1].internalId
            data == metadata(name, description, activity_type, private)
            put == Request("PUT", ActivityUrl(activity_id), with_activity_id(data, activity_id))
        IN  IF fmt = None THEN Out(Raise("FormatError"), <<>>, <<>>)
            ELSE IF response.body \notin DOMAIN UploadDocs \/ "detailedImportResult" \notin j.keys
            THEN Out(Raise("AttributeError"), <<post>>, <<response>>)
            ELSE IF import_failed(j)
            THEN Out(Raise("UploadError"), <<post>>, <<response>>)
            ELSE IF multiple_successes(j)
            THEN Out(Raise("UploadError"), <<post>>, <<response>>)
            ELSE IF DOMAIN data # {}
            THEN IF put_response.status # 204
                 THEN Out(RaiseHttp("UploadError", put_response),
                          <<post, put>>, <<response, put_response>>)
                 ELSE Out(Return("int", activity_id), <<post, put>>, <<response, put_response>>)
            ELSE Out(Return("int", activity_id), <<post>>, <<response>>))

UploadActivity ==
    \E file \in FileNames, format \in Formats, name \in Names, description \in Descriptions,
       activity_type \in ActivityTypes, private \in Privates,
       response \in UploadResponses, put_response \in PutResponses :
        Call("upload_activity",
             [file |-> file, format |-> format, name |-> name, description |-> description,
              activity_type |-> activity_type, private |-> private],
             upload_activity(session, file, format, name, description, activity_type,
                             private, response, put_response))

-----------------------------------------------------------------------------
(* The client after construction (__init__): no session. *)

Init ==
    /\ password \in {None, "secret"}
    /\ session = None
    /\ opened = 0
    /\ authed = FALSE
    /\ everConnected = FALSE
    /\ block = "none"
    /\ op = "__init__"
    /\ args = <<>>
    /\ result = ReturnNone
    /\ sent = <<>>
    /\ recv = <<>>
    /\ connection = None
    /\ dbOpened = 0
    /\ daily_statistics = <<>>
    /\ child_rows = 0
    /\ returned = [d \in Dates |-> {}]

Next ==
    \/ Connect
    \/ Disconnect
    \/ GetDailySleepData
    \/ GetDailyHrData
    \/ GetDailyMovement
    \/ GetUserSummary
    \/ GetActivitySummary
    \/ GetActivityDetails
    \/ GetActivityGpx
    \/ GetActivityTcx
    \/ GetOriginalActivity
    \/ GetActivityFit
    \/ ListActivities

Spec == Init /\ [][Next]_vars

(* The client used for uploads, constructed with a password. *)
InitUpload == Init /\ password # None

NextUpload ==
    \/ Connect
    \/ Disconnect
    \/ UploadActivity

SpecUpload == InitUpload /\ [][NextUpload]_vars

-----------------------------------------------------------------------------
(* Properties *)

DailyOps == {"get_daily_sleep_data", "get_daily_hr_data", "get_daily_movement", "get_user_summary"}
StructuredOps == DailyOps \cup {"get_activity_summary", "get_activity_details"}
ExportOps == {"get_activity_gpx", "get_activity_tcx"}
OriginalOps == {"get_original_activity", "get_activity_fit"}
FetcherOps == StructuredOps \cup ExportOps \cup OriginalOps \cup {"list_activities"}
ResourceOps == FetcherOps \cup {"upload_activity"}

Last(seq) == seq[Len(seq)]
AbsentStatuses == {404, 204}

(* C1: a resource operation sends an HTTP request only when the login steps *)
(* of the last connect() completed and no disconnect() happened since.      *)
C1_NoFetchBeforeAuthentication ==
    op \in ResourceOps /\ sent # <<>> => authed

(* C2: on a client on which connect() was never called, every resource *)
(* fetcher fails with UsageError and sends no HTTP request.             *)
C2_FetchBeforeConnectIsUsageError ==
    op \in ResourceOps /\ ~everConnected =>
        RaisedError(result, "UsageError") /\ sent = <<>>

(* C3: after disconnect() the client holds no session, and every resource *)
(* operation called before the next connect() fails with UsageError.      *)
C3_DisconnectReleasesSession ==
    /\ op = "disconnect" => session = None
    /\ op \in ResourceOps /\ everConnected /\ session = None =>
           RaisedError(result, "UsageError")

(* C4: when the login form is answered 200 with a body that lacks the       *)
(* ticket-URL pattern, connect() fails with AuthenticationError and the     *)
(* client holds no session afterwards.                                      *)
C4_MissingTicketLeavesNoSession ==
    op = "connect" /\ sent # <<>> /\ recv[1].status = 200
        /\ re_search_response_url(recv[1].body) = <<>> =>
            RaisedError(result, "AuthenticationError") /\ session = None

(* C5: connect() with a password sends the login-form POST, then the GET of  *)
(* the extracted ticket URL, then the session-warming GET, and stops at the  *)
(* first failing step: a non-200 login answer or a missing ticket pattern    *)
(* fails with AuthenticationError after the POST alone, a non-200 ticket     *)
(* answer fails connect() without the warming GET.                           *)
C5_ConnectStopsAtFirstFailure ==
    op = "connect" /\ password # None =>
        /\ Len(sent) \in 1..3 /\ Len(recv) = Len(sent)
        /\ sent[1].method = "POST" /\ sent[1].url = SSO_LOGIN_URL
        /\ (recv[1].status # 200 \/ re_search_response_url(recv[1].body) = <<>>) =>
               Len(sent) = 1 /\ RaisedError(result, "AuthenticationError")
        /\ (recv[1].status = 200 /\ re_search_response_url(recv[1].body) # <<>>) =>
               /\ Len(sent) >= 2
               /\ sent[2].method = "GET"
               /\ sent[2].url = _extract_auth_ticket_url(recv[1].body)
               /\ recv[2].status # 200 => Len(sent) = 2 /\ Raised(result)
               /\ recv[2].status = 200 =>
                      /\ Len(sent) = 3
                      /\ sent[3].method = "GET" /\ sent[3].url = LEGACY_SESSION_URL

C5_Witness ==
    /\ op = "connect" /\ Len(sent) = 2 /\ recv[1].status = 200 /\ recv[2].status = 500
    /\ Raised(result)

(* C6: a fetcher whose request is answered 404 or 204 returns the absent *)
(* value (None, or (None, None) for the original file) and never raises. *)
C6_AbsentIsNeverAnError ==
    op \in FetcherOps /\ recv # <<>> /\ Last(recv).status \in AbsentStatuses =>
        /\ result.kind = "return"
        /\ \/ result.type = "NoneType"
           \/ result.type = "tuple" /\ result.value = <<None, None>>

(* C7: a fetcher that receives a status other than 200, 404 and 204 fails *)
(* with RequestError carrying that status and that response's body.       *)
C7_UnexpectedStatusIsRequestError ==
    op \in FetcherOps =>
        \A i \in 1..Len(recv) :
            recv[i].status \notin ({200} \cup AbsentStatuses) =>
                result = RaiseHttp("RequestError", recv[i])

C7_Witness ==
    /\ op = "get_activity_gpx" /\ Len(recv) = 1 /\ recv[1] = Response(500, "<html>error</html>")
    /\ RaisedError(result, "RequestError")

(* C8: on a connected client each of the eight fetchers performs exactly one *)
(* GET, and on a 200 answer returns its payload: the decoded document for    *)
(* the structured fetchers (body well-formed JSON), the raw text for GPX/TCX.*)
C8_OkReturnsPayload ==
    op \in StructuredOps \cup ExportOps /\ authed =>
        /\ Len(sent) = 1 /\ sent[1].method = "GET"
        /\ recv[1].status = 200 /\ (op \in StructuredOps => recv[1].body \in DOMAIN JsonDocs) =>
               /\ result.kind = "return"
               /\ IF op \in StructuredOps
                  THEN result.type = "dict" /\ result.value = JsonDocs[recv[1].body]
                  ELSE result.type = "str" /\ result.value = recv[1].body

(* The (identifier, UTC timestamp) pairs of the batches received, in the order received *)
RECURSIVE ReceivedEntries(_)
ReceivedEntries(responses) ==
    IF responses = <<>> THEN <<>>
    ELSE [i \in 1..Len(Head(responses).body) |->
             <<Head(responses).body[i].activityId,
               [naive |-> Head(responses).body[i].startTimeGMT, tzinfo |-> "UTC"]>>]
         \o ReceivedEntries(Tail(responses))

(* C9: list_activities() returns the concatenation, in the order received, of *)
(* the batches returned before the first empty batch; against the batches of  *)
(* 100, 100 and 37 activities followed by an empty one it returns 237 entries *)
(* in the received order with no identifier twice.                            *)
C9_ListIsConcatenationInReceivedOrder ==
    op = "list_activities" /\ result.kind = "return" =>
        /\ result.type = "list"
        /\ Last(recv).body = <<>>
        /\ \A i \in 1..(Len(recv) - 1) : recv[i].body # <<>>
        /\ result.value = ReceivedEntries(recv)
        /\ recv = PaginatedEndpoint =>
               /\ Len(result.value) = 237
               /\ \A i \in 1..237 : result.value[i][1] = i
               /\ \A i, k \in 1..237 : i # k => result.value[i][1] # result.value[k][1]

C9_Witness ==
    /\ op = "list_activities" /\ result.kind = "return" /\ recv = PaginatedEndpoint
    /\ Len(result.value) = 237

(* C10: on a connected client, upload_activity() without a format on a file *)
(* whose extension is not gpx, tcx or fit fails with FormatError and sends  *)
(* no request: no upload POST, no metadata PUT.                             *)
C10_UnsupportedExtensionFailsBeforeNetwork ==
    op = "upload_activity" /\ session # None /\ args.format = None
        /\ str_lower(args.file.ext) \notin {".gpx", ".tcx", ".fit"} =>
            RaisedError(result, "FormatError") /\ sent = <<>>

C10_Witness ==
    /\ op = "upload_activity" /\ session # None /\ args.format = None
    /\ args.file.ext = ".csv" /\ RaisedError(result, "FormatError")

UploadPostAnswered == op = "upload_activity" /\ recv # <<>>
ImportResultOf(response) == UploadDocs[response.body]
HasImportResult(response) ==
    response.body \in DOMAIN UploadDocs
        /\ "detailedImportResult" \in UploadDocs[response.body].keys
PutSent == \E i \in 1..Len(sent) : sent[i].method = "PUT"

(* C11: an upload whose import result reports two or more successes fails *)
(* with UploadError and sends no metadata update, whatever optional       *)
(* metadata was supplied.                                                 *)
C11_MultipleSuccessesFailWithoutUpdate ==
    UploadPostAnswered /\ HasImportResult(recv[1])
        /\ Len(ImportResultOf(recv[1]).successes) >= 2 =>
            RaisedError(result, "UploadError") /\ ~PutSent /\ Len(sent) = 1

C11_Witness ==
    /\ UploadPostAnswered /\ HasImportResult(recv[1])
    /\ Len(ImportResultOf(recv[1]).successes) = 2
    /\ args.name # None /\ args.private = "True"
    /\ RaisedError(result, "UploadError")

(* C12: upload_activity() fails with UploadError whenever the import result *)
(* has a failure entry or no success (also with failures and successes both *)
(* present); then no metadata update is sent and no activity id returned.   *)
C12_FailuresOrNoSuccessFail ==
    UploadPostAnswered /\ HasImportResult(recv[1])
        /\ (Len(ImportResultOf(recv[1]).failures) > 0
                \/ Len(ImportResultOf(recv[1]).successes) = 0) =>
            RaisedError(result, "UploadError") /\ ~PutSent /\ result.kind # "return"

C12_Witness ==
    /\ UploadPostAnswered /\ HasImportResult(recv[1])
    /\ Len(ImportResultOf(recv[1]).failures) > 0
    /\ Len(ImportResultOf(recv[1]).successes) = 1
    /\ RaisedError(result, "UploadError")

ExactlyOneSuccess ==
    /\ UploadPostAnswered /\ HasImportResult(recv[1])
    /\ Len(ImportResultOf(recv[1]).failures) = 0
    /\ Len(ImportResultOf(recv[1]).successes) = 1

UpdateOutcome ==
    /\ PutSent => Len(sent) = 2 /\ sent[2].method = "PUT"
    /\ PutSent /\ recv[2].status # 204 => RaisedError(result, "UploadError")
    /\ (~PutSent \/ recv[2].status = 204) =>
           result = Return("int", ImportResultOf(recv[1]).successes[1].internalId)

(* C13 as stated: on exactly one success the metadata update is sent if and *)
(* only if at least one of name, description, activity_type, private was    *)
(* supplied; a non-204 answer to it fails with UploadError, a 204 answer    *)
(* returns the id of the single success.                                    *)
C13_UpdateIffAnyMetadataSupplied ==
    ExactlyOneSuccess =>
        /\ PutSent <=> (args.name # None \/ args.description # None
                            \/ args.activity_type # None \/ args.private # None)
        /\ UpdateOutcome

(* C13 as amended: on exactly one success the metadata update is sent if and *)
(* only if a name, a description or an activity type was supplied or private *)
(* is true; a non-204 answer to it fails with UploadError, otherwise the id  *)
(* of the single success is returned.                                        *)
C13_UpdateIffMetadataToSet ==
    ExactlyOneSuccess =>
        /\ PutSent <=> (args.name # None \/ args.description # None
                            \/ args.activity_type # None \/ args.private = "True")
        /\ UpdateOutcome

C13_Witness ==
    /\ ExactlyOneSuccess /\ PutSent /\ recv[2].status = 500
    /\ args.name = None /\ args.description = None /\ args.activity_type # None
    /\ RaisedError(result, "UploadError")

-----------------------------------------------------------------------------
(* The client as a context manager: with GarminClient(...) as client: ... *)

(* __enter__: self.connect(). When it raises, the with-statement is left *)
(* there and __exit__ is not called.                                     *)
WithEnter ==
    /\ block \in {"none", "left"}
    /\ opened < MaxOpen
    /\ \E login \in LoginResponses, ticket \in PlainResponses, warm \in PlainResponses :
         LET out == connect(Session, password, login, ticket, warm)
         IN  /\ session' = Session
             /\ opened' = opened + 1
             /\ authed' = TicketClaimed(out)
             /\ block' = IF Raised(out.res) THEN "left" ELSE "body"
             /\ op' = "connect"
             /\ args' = <<>>
             /\ result' = out.res
             /\ sent' = out.sent
             /\ recv' = out.recv
    /\ everConnected' = TRUE
    /\ UNCHANGED password
    /\ UNCHANGED dbVars

(* __exit__: self.disconnect() *)
__exit__ ==
    /\ IF session # None
       THEN /\ opened' = opened - 1
            /\ authed' = FALSE
            /\ session' = None
       ELSE UNCHANGED <<opened, authed, session>>
    /\ block' = "left"

daily_fetcher(name, sess, request_date, response) ==
    CASE name = "get_daily_sleep_data" -> get_daily_sleep_data(sess, request_date, response)
      [] name = "get_daily_hr_data" -> get_daily_hr_data(sess, request_date, response)
      [] name = "get_daily_movement" -> get_daily_movement(sess, request_date, response)
      [] name = "get_user_summary" -> get_user_summary(sess, request_date, response)

(* A fetch in the block; an exception it raises leaves the block through *)
(* __exit__.                                                             *)
WithFetch ==
    /\ block = "body"
    /\ \E name \in DailyOps, d \in Dates, r \in Responses :
         LET out == daily_fetcher(name, session, d, r)
         IN  /\ op' = name
             /\ args' = [request_date |-> d]
             /\ result' = out.res
             /\ sent' = out.sent
             /\ recv' = out.recv
             /\ IF Raised(out.res)
                THEN __exit__
                ELSE UNCHANGED <<session, opened, authed, block>>
    /\ UNCHANGED <<password, everConnected>>
    /\ UNCHANGED dbVars

(* The end of the block is reached: __exit__ with no exception. *)
WithExit ==
    /\ block = "body"
    /\ __exit__
    /\ op' = "__exit__"
    /\ args' = <<>>
    /\ result' = ReturnNone
    /\ sent' = <<>>
    /\ recv' = <<>>
    /\ UNCHANGED <<password, everConnected>>
    /\ UNCHANGED dbVars

NextWith ==
    \/ WithEnter
    \/ WithFetch
    \/ WithExit

SpecWith == Init /\ [][NextWith]_vars

(* C14: once a with-statement on the client is left, by the end of the block, *)
(* by an exception raised in the block or by a failure of connect() during    *)
(* entry, no session is open.                                                 *)
C14_WithReleasesSession ==
    block = "left" => opened = 0 /\ session = None

(* C16: whenever the login form is answered 200 with a ticket URL in its body *)
(* and the ticket fetch is answered 200, connect() sends the session-warming  *)
(* GET, returns normally and leaves the client connected, whatever the status *)
(* of the session-warming answer.                                             *)
C16_WarmingResultIgnored ==
    op = "connect" /\ Len(recv) >= 2 /\ recv[1].status = 200
        /\ re_search_response_url(recv[1].body) # <<>> /\ recv[2].status = 200 =>
            /\ Len(sent) = 3 /\ sent[3].url = LEGACY_SESSION_URL /\ Len(recv) = 3
            /\ result = ReturnNone
            /\ session = Session /\ authed

C16_Witness ==
    /\ op = "connect" /\ Len(recv) = 3 /\ recv[2].status = 200 /\ recv[3].status = 500
    /\ result = ReturnNone /\ authed

(* C17: get_original_activity() answered 200 returns a pair (the extension and *)
(* bytes of the archive entry named after the activity id, or (None, None)     *)
(* when the archive has no such entry); answered 404 it returns (None, None);  *)
(* in neither case does it raise.                                              *)
C17_OriginalReturnsPair ==
    op = "get_original_activity" /\ recv # <<>> /\ recv[1].status \in {200, 404} =>
        /\ result.kind = "return" /\ result.type = "tuple"
        /\ recv[1].status = 404 => result.value = <<None, None>>

(* C18: a value returned by a daily fetcher is the document decoded from the *)
(* body of a 200 answer, or the absent marker None; for no answer status is  *)
(* anything else returned.                                                   *)
C18_DailyPayloadIsDocumentOrAbsent ==
    op \in DailyOps /\ result.kind = "return" =>
        \/ /\ Len(recv) = 1 /\ recv[1].status = 200
           /\ recv[1].body \in DOMAIN JsonDocs
           /\ result = Return("dict", JsonDocs[recv[1].body])
        \/ result = ReturnNone

C18_Witness ==
    /\ op = "get_daily_hr_data" /\ recv # <<>> /\ recv[1].status = 200
    /\ result = Return("dict", [calendarDate |-> "2018-07-23"])

NonEmptyBatches == Cardinality({i \in 1..Len(recv) : recv[i].body # <<>>})

(* C19: list_activities() requests batches of 100 at the offsets 0, 100, 200, *)
(* ... in this order, each request after the answer to the one before, and    *)
(* none after the first empty batch: when it returns it has sent (number of   *)
(* non-empty batches + 1) requests, the last one answered by the empty batch; *)
(* an empty first batch ends it with an empty list and no error.              *)
C19_BatchesRequestedUntilFirstEmpty ==
    op = "list_activities" /\ sent # <<>> =>
        /\ Len(recv) = Len(sent)
        /\ \A i \in 1..Len(sent) :
               /\ sent[i].method = "GET" /\ sent[i].url = ActivityListUrl
               /\ sent[i].data = [start |-> (i - 1) * 100, limit |-> 100]
        /\ \A i \in 1..(Len(recv) - 1) : recv[i].status = 200 /\ recv[i].body # <<>>
        /\ result.kind = "return" =>
               /\ Last(recv) = Response(200, <<>>)
               /\ Len(sent) = NonEmptyBatches + 1
        /\ recv[1] = Response(200, <<>>) => result = Return("list", <<>>) /\ Len(sent) = 1

C19_Witness ==
    /\ op = "list_activities" /\ result.kind = "return" /\ Len(sent) = 4
    /\ sent[4].data.start = 300 /\ Last(recv).body = <<>>

(* C20: the body of the metadata update carries each supplied argument under *)
(* its own field with the value supplied (name as activityName, description  *)
(* as description, activity_type as the activityTypeDTO type key, private as *)
(* the privacy setting) and the id of the uploaded activity.                 *)
C20_UpdateCarriesSuppliedValues ==
    op = "upload_activity" /\ PutSent =>
        LET data == sent[2].data
        IN  /\ data["activityId"] = ImportResultOf(recv[1]).successes[1].internalId
            /\ args.name # None =>
                   "activityName" \in DOMAIN data /\ data["activityName"] = args.name
            /\ args.description # None =>
                   "description" \in DOMAIN data /\ data["description"] = args.description
            /\ args.activity_type # None =>
                   /\ "activityTypeDTO" \in DOMAIN data
                   /\ data["activityTypeDTO"] = [typeKey |-> args.activity_type]
            /\ args.private = "True" =>
                   "privacy" \in DOMAIN data /\ data["privacy"] = [typeKey |-> "private"]

-----------------------------------------------------------------------------
(* Every operation of the client, the upload endpoint answering any status *)

UploadStatuses == {200, 500}
UploadResponsesAnyStatus == {Response(s, b) : s \in UploadStatuses, b \in UploadBodies}

(* upload_activity of a .gpx file with at most a name as metadata *)
UploadActivityAnyStatus ==
    \E name \in Names, response \in UploadResponsesAnyStatus, put_response \in PutResponses :
        LET file == [root |-> "ride", ext |-> ".gpx"]
        IN  Call("upload_activity",
                 [file |-> file, format |-> None, name |-> name, description |-> None,
                  activity_type |-> None, private |-> None],
                 upload_activity(session, file, None, name, None, None, None,
                                 response, put_response))

NextClient ==
    \/ Next
    \/ UploadActivityAnyStatus

SpecClient == Init /\ [][NextClient]_vars

(* The status an endpoint answers on success: 204 for the metadata update, *)
(* 200 for every other request.                                            *)
SuccessStatus(request) == IF request.method = "PUT" THEN 204 ELSE 200

(* recv[i] is a non-success response, the absent cases of the fetchers excepted *)
NonSuccess(i) ==
    /\ recv[i].status # SuccessStatus(sent[i])
    /\ ~(op \in FetcherOps /\ recv[i].status \in AbsentStatuses)

NoRequestToSameEndpointAfter(i) ==
    \A k \in (i + 1)..Len(sent) : sent[k].url # sent[i].url

(* The responses whose status the code does not examine: the session-warming *)
(* answer of connect() and the answer to the upload POST.                    *)
StatusNotExamined(i) ==
    \/ op = "connect" /\ sent[i].url = LEGACY_SESSION_URL
    \/ op = "upload_activity" /\ sent[i].method = "POST"

(* C15 as stated: in every operation, after a non-success response (404/204 *)
(* of the fetchers excepted) no further request goes to the same endpoint   *)
(* and the operation fails.                                                 *)
C15_NonSuccessEndsOperationWithFailure ==
    \A i \in 1..Len(recv) :
        NonSuccess(i) => NoRequestToSameEndpointAfter(i) /\ Raised(result)

(* C15 as amended: in every operation, after a non-success response no       *)
(* further request goes to the same endpoint; the operation then fails       *)
(* without sending anything more, unless the response is the session-warming *)
(* answer of connect() or the answer to the upload POST, whose status is not *)
(* examined.                                                                 *)
C15_NoRetryAndExaminedStatusFails ==
    \A i \in 1..Len(recv) :
        NonSuccess(i) =>
            /\ NoRequestToSameEndpointAfter(i)
            /\ ~StatusNotExamined(i) => Raised(result) /\ i = Len(sent)

C15_Witness ==
    /\ op = "list_activities" /\ Len(sent) = 2 /\ recv[1].status = 200
    /\ recv[2].status = 500 /\ RaisedError(result, "RequestError")

(* C22: a client owns at most one open session: every session connect()   *)
(* created is closed before the client holds a different session or none, *)
(* so at most one session is open, and none when the client holds none.    *)
C22_AtMostOneOpenSession ==
    /\ opened <= 1
    /\ session = None => opened = 0

(* The fetchers whose body reaches its request (get_activity_summary and *)
(* get_activity_details fail on an undefined name before it).            *)
SendingFetchers == FetcherOps \ {"get_activity_summary", "get_activity_details"}

(* C23: a fetch on a connected client that is answered 404/204 or by a     *)
(* failure status leaves the client's session as it was (same session,     *)
(* still connected, nothing closed), and the fetch that follows it is sent *)
(* through that session, with no connect() in between.                     *)
C23_FetchWithoutPayloadKeepsSession ==
    [][/\ (op' \in FetcherOps /\ recv' # <<>> /\ Last(recv').status # 200) =>
              /\ session' = session /\ session' # None
              /\ opened' = opened /\ authed' = authed
       /\ (op \in FetcherOps /\ recv # <<>> /\ Last(recv).status # 200
               /\ op' \in SendingFetchers) =>
              sent' # <<>> /\ session' = session]_vars

C23_Witness ==
    /\ op = "get_activity_gpx" /\ recv # <<>> /\ recv[1].status = 404
    /\ result = ReturnNone /\ session = Session /\ authed /\ opened = 1

-----------------------------------------------------------------------------
(* Database (src/garminexport/database.py)                                   *)
(*                                                                           *)
(* daily_statistics is kept row by row, with one column for each insert      *)
(* routine that updates it (total_sleep, max_hr, total_steps stand for the   *)
(* columns of lines 51, 76 and 105); of the four child tables (sleep,        *)
(* sleep_movement, hr_data, movement_data) only the number of rows they hold *)
(* together is kept.  pymysql raises InterfaceError when a statement is      *)
(* executed on a closed connection and Error when a closed connection is     *)
(* closed again.                                                             *)

MaxConnections == 2   \* database connections open at the same time
MaxChildRows == 1     \* rows in sleep, sleep_movement, hr_data and movement_data together

Tables(rows, n) == [daily_statistics |-> rows, child_rows |-> n]

DbOut(res, db) == [res |-> res, db |-> db]

Row(id, entry_date) ==
    [id |-> id, entry_date |-> entry_date, total_sleep |-> None, max_hr |-> None,
     total_steps |-> None]

(* SELECT `id` FROM `daily_statistics` WHERE `entry_date`=%s: the rows *)
(* matching, and the id of the first of them (fetchone).               *)
Matching(rows, date) == {i \in 1..Len(rows) : rows[i].entry_date = date}
fetchone(rows, date) ==
    rows[CHOOSE i \in Matching(rows, date) : \A k \in Matching(rows, date) : i <= k].id

(* cursor.lastrowid of the AUTO_INCREMENT id; no row is ever deleted *)
lastrowid(rows) == Len(rows) + 1

create_or_get_daily_statistic_id_insert_only(db, conn, date) ==
    IF date = None THEN DbOut(Raise("AttributeError"), db)
    ELSE IF conn # "open" THEN DbOut(Raise("InterfaceError"), db)
    ELSE DbOut(Return("int", lastrowid(db.daily_statistics)),
               [db EXCEPT !.daily_statistics =
                    Append(@, Row(lastrowid(db.daily_statistics), date))])

(* With date None, line 23 calls today() on the None just tested: *)
(* AttributeError.                                                *)
create_or_get_daily_statistic_id(db, conn, date) ==
    IF date = None THEN DbOut(Raise("AttributeError"), db)
    ELSE IF conn # "open" THEN DbOut(Raise("InterfaceError"), db)
    ELSE IF Matching(db.daily_statistics, date) # {}
    THEN DbOut(Return("int", fetchone(db.daily_statistics, date)), db)
    ELSE DbOut(Return("int", lastrowid(db.daily_statistics)),
               [db EXCEPT !.daily_statistics =
                    Append(@, Row(lastrowid(db.daily_statistics), date))])

(* UPDATE `daily_statistics` SET column = value WHERE id = %s *)
update_daily_statistics(rows, id, column, value) ==
    [i \in 1..Len(rows) |-> IF rows[i].id = id THEN [rows[i] EXCEPT ![column] = value]
                            ELSE rows[i]]

(* The payloads handed to the insert routines, as a fetcher returns them:   *)
(* None (absent), a document with the calendar date only (partial), or a   *)
(* complete document whose list of values is None or holds one entry.      *)
Shapes == {"absent", "partial", "complete"}
ValueLists == {None, "one entry"}
HasKey(doc, key) == key \in DOMAIN doc
entries(values) == IF values = None THEN 0 ELSE 1

sleep_doc(d, shape, values) ==
    IF shape = "absent" THEN ReturnNone
    ELSE IF shape = "partial" THEN Return("dict", [calendarDate |-> d])
    ELSE Return("dict", [dailySleepDTO |-> [calendarDate |-> d, sleepTimeSeconds |-> 28800],
          sleepMovement |-> values])

hr_doc(d, shape, values) ==
    IF shape = "absent" THEN ReturnNone
    ELSE IF shape = "partial" THEN Return("dict", [calendarDate |-> d])
    ELSE Return("dict", [calendarDate |-> d, maxHeartRate |-> 180, heartRateValues |-> values])

movement_doc(d, shape, values) ==
    IF shape = "absent" THEN ReturnNone
    ELSE IF shape = "partial" THEN Return("dict", [calendarDate |-> d])
    ELSE Return("dict", [calendarDate |-> d, movementValues |-> values])

summary_doc(d, shape) ==
    IF shape = "absent" THEN ReturnNone
    ELSE IF shape = "partial" THEN Return("dict", [calendarDate |-> d])
    ELSE Return("dict", [calendarDate |-> d, totalSteps |-> 9000])

insert_sleep_data(db, conn, fetched) ==
    IF fetched.type = "NoneType" THEN DbOut(Raise("TypeError"), db)
    ELSE IF ~HasKey(fetched.value, "dailySleepDTO") THEN DbOut(Raise("KeyError"), db)
    ELSE LET sleep_data == fetched.value
             daily_sleep_data == sleep_data["dailySleepDTO"]
             got == create_or_get_daily_statistic_id(db, conn, daily_sleep_data["calendarDate"])
             daily_statistics_id == got.res.value
         IN  IF Raised(got.res) THEN got
             ELSE DbOut(ReturnNone,
                        [got.db EXCEPT
                            !.daily_statistics =
                                update_daily_statistics(@, daily_statistics_id, "total_sleep",
                                                        daily_sleep_data["sleepTimeSeconds"]),
                            !.child_rows = @ + 1 + entries(sleep_data["sleepMovement"])])

insert_hr_data(db, conn, fetched) ==
    IF fetched.type = "NoneType" THEN DbOut(Raise("TypeError"), db)
    ELSE LET hr == fetched.value
             got == create_or_get_daily_statistic_id(db, conn, hr["calendarDate"])
             daily_statistics_id == got.res.value
         IN  IF Raised(got.res) THEN got
             ELSE IF ~HasKey(hr, "maxHeartRate") THEN DbOut(Raise("KeyError"), got.db)
             ELSE DbOut(ReturnNone,
                        [got.db EXCEPT
                            !.daily_statistics =
                                update_daily_statistics(@, daily_statistics_id, "max_hr",
                                                        hr["maxHeartRate"]),
                            !.child_rows = @ + entries(hr["heartRateValues"])])

insert_movement_data(db, conn, fetched) ==
    IF fetched.type = "NoneType" THEN DbOut(Raise("TypeError"), db)
    ELSE LET movement == fetched.value
             got == create_or_get_daily_statistic_id(db, conn, movement["calendarDate"])
         IN  IF Raised(got.res) THEN got
             ELSE IF ~HasKey(movement, "movementValues") THEN DbOut(Raise("KeyError"), got.db)
             ELSE DbOut(ReturnNone,
                        [got.db EXCEPT
                            !.child_rows = @ + entries(movement["movementValues"])])

insert_user_summary(db, conn, fetched) ==
    IF fetched.type = "NoneType" THEN DbOut(Raise("TypeError"), db)
    ELSE LET summary_data == fetched.value
             got == create_or_get_daily_statistic_id(db, conn, summary_data["calendarDate"])
             daily_statistics_id == got.res.value
         IN  IF Raised(got.res) THEN got
             ELSE IF ~HasKey(summary_data, "totalSteps") THEN DbOut(Raise("KeyError"), got.db)
             ELSE DbOut(ReturnNone,
                        [got.db EXCEPT
                            !.daily_statistics =
                                update_daily_statistics(@, daily_statistics_id, "total_steps",
                                                        summary_data["totalSteps"])])

CurrentTables == Tables(daily_statistics, child_rows)

(* A call on the Database object: the tables become those of its outcome. *)
DbCall(name, arguments, out) ==
    /\ connection # None
    /\ out.db.child_rows <= MaxChildRows
    /\ op' = name
    /\ args' = arguments
    /\ result' = out.res
    /\ sent' = <<>>
    /\ recv' = <<>>
    /\ daily_statistics' = out.db.daily_statistics
    /\ child_rows' = out.db.child_rows
    /\ UNCHANGED <<connection, dbOpened>>
    /\ UNCHANGED clientVars

(* Database(): __init__ calls connect() *)
DatabaseNew ==
    /\ dbOpened < MaxConnections
    /\ connection' = "open"
    /\ dbOpened' = dbOpened + 1
    /\ op' = "Database"
    /\ args' = <<>>
    /\ result' = ReturnNone
    /\ sent' = <<>>
    /\ recv' = <<>>
    /\ UNCHANGED <<daily_statistics, child_rows, returned>>
    /\ UNCHANGED clientVars

DatabaseDisconnect ==
    /\ connection # None
    /\ IF connection = "open"
       THEN connection' = "closed" /\ dbOpened' = dbOpened - 1 /\ result' = ReturnNone
       ELSE UNCHANGED <<connection, dbOpened>> /\ result' = Raise("Error")
    /\ op' = "Database.disconnect"
    /\ args' = <<>>
    /\ sent' = <<>>
    /\ recv' = <<>>
    /\ UNCHANGED <<daily_statistics, child_rows, returned>>
    /\ UNCHANGED clientVars

CreateOrGetDailyStatisticId ==
    \E date \in Dates \cup {None} :
        LET out == create_or_get_daily_statistic_id(CurrentTables, connection, date)
        IN  /\ DbCall("create_or_get_daily_statistic_id", [date |-> date], out)
            /\ returned' = IF Raised(out.res) THEN returned
                           ELSE [returned EXCEPT ![date] = @ \cup {out.res.value}]

InsertSleepData ==
    \E d \in Dates, shape \in Shapes, values \in ValueLists :
        /\ DbCall("insert_sleep_data", [date |-> d],
                  insert_sleep_data(CurrentTables, connection, sleep_doc(d, shape, values)))
        /\ UNCHANGED returned

InsertHrData ==
    \E d \in Dates, shape \in Shapes, values \in ValueLists :
        /\ DbCall("insert_hr_data", [date |-> d],
                  insert_hr_data(CurrentTables, connection, hr_doc(d, shape, values)))
        /\ UNCHANGED returned

InsertMovementData ==
    \E d \in Dates, shape \in Shapes, values \in ValueLists :
        /\ DbCall("insert_movement_data", [date |-> d],
                  insert_movement_data(CurrentTables, connection, movement_doc(d, shape, values)))
        /\ UNCHANGED returned

InsertUserSummary ==
    \E d \in Dates, shape \in Shapes :
        /\ DbCall("insert_user_summary", [date |-> d],
                  insert_user_summary(CurrentTables, connection, summary_doc(d, shape)))
        /\ UNCHANGED returned

(* GarminClient(...): __init__ takes a username and a password (and an    *)
(* optional user); a call with fewer than two arguments raises TypeError. *)
GarminClient(arguments) ==
    IF Len(arguments) < 2 THEN Raise("TypeError") ELSE ReturnNone

(* process(request_date): line 40 opens the database connection of a new  *)
(* Database; line 41 constructs the client from args.username alone, which *)
(* raises TypeError, so the with block of lines 42-46 (the four fetch and  *)
(* insert steps and db.disconnect()) is not entered and process() is left  *)
(* with the exception.  The Database object is local to process().         *)
Process ==
    /\ dbOpened < MaxConnections
    /\ \E request_date \in Dates :
         LET client == GarminClient(<<"args.username">>)
         IN  /\ Raised(client)
             /\ dbOpened' = dbOpened + 1
             /\ op' = "process"
             /\ args' = [request_date |-> request_date]
             /\ result' = client
    /\ sent' = <<>>
    /\ recv' = <<>>
    /\ UNCHANGED <<connection, daily_statistics, child_rows, returned>>
    /\ UNCHANGED clientVars

NextDatabase ==
    \/ Process
    \/ DatabaseNew
    \/ DatabaseDisconnect
    \/ CreateOrGetDailyStatisticId
    \/ InsertSleepData
    \/ InsertHrData
    \/ InsertMovementData
    \/ InsertUserSummary

(* The database is used without the client's password. *)
InitDatabase == Init /\ password = None

SpecDatabase == InitDatabase /\ [][NextDatabase]_vars

RowsByDate(date) == {i \in 1..Len(daily_statistics) : daily_statistics[i].entry_date = date}

(* C21: after any sequence of create_or_get_daily_statistic_id and insert  *)
(* calls, daily_statistics holds at most one row for each entry date, and  *)
(* create_or_get_daily_statistic_id has returned one and the same id, that *)
(* of the date's row, every time it was called with the same date.         *)
C21_GetOrCreateIsIdempotentPerDate ==
    \A date \in Dates :
        /\ Cardinality(RowsByDate(date)) <= 1
        /\ Cardinality(returned[date]) <= 1
        /\ \A id \in returned[date] :
               \E i \in RowsByDate(date) : daily_statistics[i].id = id

C21_Witness ==
    /\ op = "create_or_get_daily_statistic_id" /\ args.date = "2018-07-23"
    /\ result = Return("int", 2) /\ Len(daily_statistics) = 2
    /\ child_rows = 1
    /\ returned["2018-07-22"] = {1} /\ returned["2018-07-23"] = {2}

(* C24: when process() is left, by its end or by an exception, the database *)
(* connection and the client session it opened are closed: no more of      *)
(* either is open than before the call.                                    *)
C24_ProcessReleasesSessionAndConnection ==
    [][op' = "process" => dbOpened' = dbOpened /\ opened' = opened]_vars

====
